---- MODULE Spec2Model ----
(***************************************************************************)
(* Model of the observability notebook of amazon-bedrock-samples:          *)
(*   - invoke_agent, the function that calls the agent API and reads its   *)
(*     event stream (notebook cell d8d344fa);                              *)
(*   - the BedrockLogs.watch decorator around invoke_agent and the two     *)
(*     feedback functions.  The observability module is not part of the    *)
(*     sources; the decorator is modelled from the specification, section  *)
(*     4.1, and from the way the notebook uses what it returns.            *)
(***************************************************************************)
EXTENDS Integers, Sequences, FiniteSets, TLC

\* ------------------------------------------------------------------ bounds
\* events the agent service delivers over the whole run (all streams together)
MaxEvents == 3
\* wrapped calls made over the whole run
MaxCalls == 2

\* ------------------------------------------------------------ option values
\* Python's None, and a present value
None == <<>>
Some(v) == <<v>>
Val(o) == o[1]

\* -------------------------------------------------------------- exceptions
\* an exception object: its class and its message
Exc(type, msg) == [type |-> type, msg |-> msg]
\* botocore error of the invoke_agent API call
ClientError == Exc("ClientError", "InvokeAgent failed")
\* botocore error raised while the event stream is iterated
EventStreamError == Exc("EventStreamError", "stream failed")
\* bytes.decode('utf8') on an ill-formed payload
UnicodeDecodeError == Exc("UnicodeDecodeError", "invalid utf-8")
UnexpectedEvent == Exc("Exception", "Unexpected event.")
EndEventNotReceived == Exc("Exception", "End event not received.")

\* ----------------------------------------------------------------- utf-8
IsCont(b) == b >= 128 /\ b <= 191

\* number of bytes of the UTF-8 form that starts at s[1]; 0 if ill-formed
Utf8FormLen(s) ==
  IF s = <<>> THEN 0
  ELSE LET b == s[1] IN
    IF b < 128 THEN 1
    ELSE IF b >= 194 /\ b <= 223
      THEN IF Len(s) >= 2 /\ IsCont(s[2]) THEN 2 ELSE 0
    ELSE IF b >= 224 /\ b <= 239
      THEN IF /\ Len(s) >= 3 /\ IsCont(s[2]) /\ IsCont(s[3])
              /\ (b = 224 => s[2] >= 160)
              /\ (b = 237 => s[2] <= 159)
           THEN 3 ELSE 0
    ELSE IF b >= 240 /\ b <= 244
      THEN IF /\ Len(s) >= 4 /\ IsCont(s[2]) /\ IsCont(s[3]) /\ IsCont(s[4])
              /\ (b = 240 => s[2] >= 144)
              /\ (b = 244 => s[2] <= 143)
           THEN 4 ELSE 0
    ELSE 0

\* code point of the well-formed UTF-8 form of n bytes at the head of s
Utf8CodePoint(s, n) ==
  IF n = 1 THEN s[1]
  ELSE IF n = 2 THEN (s[1] - 192) * 64 + (s[2] - 128)
  ELSE IF n = 3 THEN (s[1] - 224) * 4096 + (s[2] - 128) * 64 + (s[3] - 128)
  ELSE (s[1] - 240) * 262144 + (s[2] - 128) * 4096
         + (s[3] - 128) * 64 + (s[4] - 128)

RECURSIVE Utf8Valid(_)
\* TRUE iff bytes.decode('utf8') succeeds on s
Utf8Valid(s) ==
  IF s = <<>> THEN TRUE
  ELSE LET n == Utf8FormLen(s) IN
    IF n = 0 THEN FALSE ELSE Utf8Valid(SubSeq(s, n + 1, Len(s)))

RECURSIVE decode(_)
\* bytes.decode('utf8'): the string, as the sequence of its code points
decode(s) ==
  IF s = <<>> THEN <<>>
  ELSE LET n == Utf8FormLen(s) IN
    <<Utf8CodePoint(s, n)>> \o decode(SubSeq(s, n + 1, Len(s)))

\* ------------------------------------------------------------ event stream
\* payloads of chunk events: "h", "e-acute" (two bytes), and an ill-formed one
ChunkBytes == {<<104>>, <<195, 169>>, <<255>>}
\* payloads of trace events
TraceBodies == {"orchestrationTrace", "preProcessingTrace"}

ChunkEvent(b) == [key |-> "chunk", bytes |-> b, trace |-> ""]
TraceEvent(t) == [key |-> "trace", bytes |-> <<>>, trace |-> t]
\* an event of the API that invoke_agent does not know
ReturnControlEvent == [key |-> "returnControl", bytes |-> <<>>, trace |-> ""]
\* not an event: the place where iterating the stream raises
StreamFault == [key |-> "!fault", bytes |-> <<>>, trace |-> ""]

Events ==
  {ChunkEvent(b) : b \in ChunkBytes} \cup {TraceEvent(t) : t \in TraceBodies}
    \cup {ReturnControlEvent}

\* the streams of at most n items: events, then exhaustion or a fault
Streams(n) ==
  LET EvSeqs(k) == UNION {[1..m -> Events] : m \in 0..k} IN
    EvSeqs(n) \cup
      (IF n = 0 THEN {} ELSE {Append(s, StreamFault) : s \in EvSeqs(n - 1)})

\* 'key' in event
HasKey(event, key) == event.key = key

\* --------------------------------------------------------------- arguments
Queries == {"q1", "q2"}
\* (agent_id, agent_alias_id, session_id, enableTrace, endSession)
AgentArgs ==
  {<<"AGENT-1", "ALIAS-1", "SESSION-1", TRUE, FALSE>>,
   <<"AGENT-2", "ALIAS-2", "SESSION-2", TRUE, FALSE>>}
UserFeedback == {"Thumbs-up"}
\* an identifier: str(uuid.uuid4()), the n-th one drawn
Uuid(n) == <<"uuid", n>>
\* identifiers that no call has returned
StaleIds == {Uuid(0)}

VARIABLES
  pc,                  \* where the wrapped call in progress is
  func,                \* the wrapped callable that is running
  args,                \* its positional arguments
  captured_input,      \* what the wrapper kept of the arguments
  start_time, time_to_first_token, time_at_first_token,
  completion,          \* agentResponse['completion'], the whole stream
  pos,                 \* number of items of the stream read so far
  agent_answer, end_event_received, trace_data,
  ResponseMetadata,    \* agentResponse['ResponseMetadata'], the two added keys
  exc,                 \* exception raised inside the try block
  raised,              \* exception that left the callable
  result,              \* value the callable returned
  apiCalls,            \* agent API calls made by the invocation in progress
  clock,               \* time.time()
  events_left,         \* events the service can still deliver
  ncalls,              \* wrapped calls started
  log,                 \* the sink: the records written, in order
  calls,               \* for each record of log, the call that wrote it
  nextId,              \* source of fresh identifiers
  ret,                 \* what the last wrapped call returned to its caller
  callerErr,           \* the exception the last wrapped call ended with
  nb_ids,              \* notebook variables run_id, observation_id
  stack_status,        \* status of the CloudFormation stack of the template
  stack_region,        \* AWS::Region of the stack
  stack_error,         \* why the creation of the stack was refused
  created,             \* resources of the template that exist
  exports,             \* values the stack exports
  rag_pc,              \* where the retrieve_and_generate call in progress is
  rag_kwargs,          \* keyword arguments of the call, as the cell wrote them
  rag_params,          \* parameters of retrieve_and_generate, as bound
  rag_requests,        \* requests the client sent for the call, in order
  rag_response,        \* response of the API
  rag_result,          \* value retrieve_and_generate returned
  rag_error,           \* exception the call ended with
  rag_calls            \* retrieve_and_generate calls started

locals == <<start_time, time_to_first_token, time_at_first_token, completion,
            pos, agent_answer, end_event_received, trace_data,
            ResponseMetadata, exc, raised, result, apiCalls>>
wrapper == <<func, args, captured_input, ncalls, log, calls, nextId, ret,
             callerErr, nb_ids>>
notebook == <<pc, locals, wrapper, clock, events_left>>
stack == <<stack_status, stack_region, stack_error, created, exports>>
rag == <<rag_pc, rag_kwargs, rag_params, rag_requests, rag_response,
         rag_result, rag_error, rag_calls>>
vars == <<notebook, stack, rag>>

\* the values of time.time() at its next call: time passes between two reads
Times == {clock + 1}

EmptyMetadata == [time_to_first_token |-> None, time_to_last_token |-> None]

Init ==
  /\ pc = "idle"
  /\ func = "none"
  /\ args = <<>>
  /\ captured_input = None
  /\ start_time = None
  /\ time_to_first_token = None
  /\ time_at_first_token = None
  /\ completion = <<>>
  /\ pos = 0
  /\ agent_answer = None
  /\ end_event_received = FALSE
  /\ trace_data = <<>>
  /\ ResponseMetadata = EmptyMetadata
  /\ exc = None
  /\ raised = None
  /\ result = None
  /\ apiCalls = 0
  /\ clock = 0
  /\ events_left = MaxEvents
  /\ ncalls = 0
  /\ log = <<>>
  /\ calls = <<>>
  /\ nextId = 1
  /\ ret = None
  /\ callerErr = None
  /\ nb_ids = None
  /\ stack_status = "NONE"
  /\ stack_region = "none"
  /\ stack_error = "none"
  /\ created = {}
  /\ exports = <<>>
  /\ rag_pc = "idle"
  /\ rag_kwargs = None
  /\ rag_params = None
  /\ rag_requests = <<>>
  /\ rag_response = None
  /\ rag_result = None
  /\ rag_error = None
  /\ rag_calls = 0

\* ------------------------------------------------- BedrockLogs.watch, entry
\* the part of the positional arguments the wrapper logs
CapturedInputSecond(a) == a[IF Len(a) >= 2 THEN 2 ELSE 1]
CapturedInput(a) == a[1]

\* the wrapped callable is called: the wrapper reads its input and runs it
WatchCall(f, a) ==
  /\ UNCHANGED <<stack, rag>>
  /\ pc = "idle"
  /\ ncalls < MaxCalls
  /\ ncalls' = ncalls + 1
  /\ func' = f
  /\ args' = a
  /\ captured_input' = Some(CapturedInput(a))
  /\ pc' = "body"
  /\ UNCHANGED <<locals, log, calls, nextId, ret, callerErr, nb_ids, clock,
                 events_left>>

\* ------------------------------------------------------- notebook call cells
\* positional arguments of the invoke_agent call cell
InvokeAgentCellArgs(QUESTION, aa) == <<QUESTION>> \o aa

\* results, log, run_id, observation_id = invoke_agent(QUESTION, AGENT_ID, ...)
InvokeAgentCell ==
  \E QUESTION \in Queries, aa \in AgentArgs :
    WatchCall("invoke_agent", InvokeAgentCellArgs(QUESTION, aa))

\* identifiers a front end can send back with a feedback
FeedbackIds(i) == (IF nb_ids = None THEN {} ELSE {Val(nb_ids)[i]}) \cup StaleIds

\* observation_level_feedback(observation_feedback_from_front_end)
ObservationFeedbackCell ==
  \E r \in FeedbackIds(1), o \in FeedbackIds(2), user_feedback \in UserFeedback :
    WatchCall("observation_level_feedback",
              <<[user_id |-> "User-1", f_run_id |-> r,
                 f_observation_id |-> o, actual_feedback |-> user_feedback]>>)

\* session_level_feedback(session_feedback_from_front_end)
SessionFeedbackCell ==
  \E r \in FeedbackIds(1), user_feedback \in UserFeedback :
    WatchCall("session_level_feedback",
              <<[user_id |-> "User-1", f_run_id |-> r,
                 actual_feedback |-> user_feedback]>>)

\* ------------------------------------------------------------- invoke_agent
\* start of the body: the timers, then the agent API call
InvokeAgentApi ==
  /\ UNCHANGED <<stack, rag>>
  /\ pc = "body" /\ func = "invoke_agent"
  /\ \E t \in Times : start_time' = Some(t) /\ clock' = t
  /\ time_to_first_token' = None
  /\ time_at_first_token' = None
  /\ apiCalls' = apiCalls + 1
  /\ \/ \* the API call raises
        /\ exc' = Some(ClientError)
        /\ pc' = "except"
        /\ UNCHANGED <<completion, events_left>>
     \/ \* the API call returns a response with its event stream
        \E s \in Streams(events_left) :
          /\ completion' = s
          /\ events_left' = events_left - Len(s)
          /\ pc' = "loop"
          /\ exc' = None
  /\ pos' = 0
  /\ agent_answer' = None
  /\ end_event_received' = FALSE
  /\ trace_data' = <<>>
  /\ UNCHANGED <<ResponseMetadata, raised, result, wrapper>>

\* the for loop is over: the iterator has no more items
StreamExhaustedEarly == pos = Len(completion) \/ end_event_received
StreamExhausted == pos = Len(completion)

\* the item the iterator yields next
NextItem == completion[pos + 1]

InLoop == pc = "loop" /\ ~StreamExhausted

\* iterating the stream raises
LoopFault ==
  /\ UNCHANGED <<stack, rag>>
  /\ InLoop /\ NextItem = StreamFault
  /\ pos' = pos + 1
  /\ exc' = Some(EventStreamError)
  /\ pc' = "except"
  /\ UNCHANGED <<start_time, time_to_first_token, time_at_first_token,
                 completion, agent_answer, end_event_received, trace_data,
                 ResponseMetadata, raised, result, apiCalls, wrapper, clock,
                 events_left>>

\* if time_to_first_token is None
FirstTokenAlways(ttft) == TRUE
FirstToken(ttft) == ttft = None

\* agent_answer = data.decode('utf8')
AnswerKeptFirst(answer, data) ==
  IF answer = None THEN Some(decode(data)) ELSE answer
Answer(answer, data) == Some(decode(data))

\* if 'chunk' in event
LoopChunk ==
  /\ UNCHANGED <<stack, rag>>
  /\ InLoop /\ NextItem # StreamFault /\ HasKey(NextItem, "chunk")
  /\ pos' = pos + 1
  /\ IF FirstToken(time_to_first_token)
       THEN \E t \in Times :
              /\ clock' = t
              /\ time_at_first_token' = Some(t)
              /\ time_to_first_token' = Some(t - Val(start_time))
       ELSE UNCHANGED <<clock, time_at_first_token, time_to_first_token>>
  /\ IF Utf8Valid(NextItem.bytes)
       THEN /\ agent_answer' = Answer(agent_answer, NextItem.bytes)
            /\ end_event_received' = TRUE
            /\ UNCHANGED <<exc, pc>>
       ELSE /\ exc' = Some(UnicodeDecodeError)
            /\ pc' = "except"
            /\ UNCHANGED <<agent_answer, end_event_received>>
  /\ UNCHANGED <<start_time, completion, trace_data, ResponseMetadata, raised,
                 result, apiCalls, wrapper, events_left>>

\* trace['start_trace_time'] = time.time(); trace_data.append(trace)
TraceAppendFront(data, trace, t) ==
  <<[trace |-> trace, start_trace_time |-> t]>> \o data
TraceAppend(data, trace, t) ==
  Append(data, [trace |-> trace, start_trace_time |-> t])

\* elif 'trace' in event
LoopTrace ==
  /\ UNCHANGED <<stack, rag>>
  /\ InLoop /\ NextItem # StreamFault
  /\ ~HasKey(NextItem, "chunk") /\ HasKey(NextItem, "trace")
  /\ pos' = pos + 1
  /\ \E t \in Times :
       /\ clock' = t
       /\ trace_data' = TraceAppend(trace_data, NextItem.trace, t)
  /\ UNCHANGED <<start_time, time_to_first_token, time_at_first_token,
                 completion, agent_answer, end_event_received,
                 ResponseMetadata, exc, raised, result, apiCalls, wrapper,
                 events_left, pc>>

\* else: raise Exception("Unexpected event.", event)
LoopUnexpectedSkipped ==
  /\ UNCHANGED <<stack, rag>>
  /\ InLoop /\ NextItem # StreamFault
  /\ ~HasKey(NextItem, "chunk") /\ ~HasKey(NextItem, "trace")
  /\ pos' = pos + 1
  /\ UNCHANGED <<start_time, time_to_first_token, time_at_first_token,
                 completion, agent_answer, end_event_received, trace_data,
                 ResponseMetadata, exc, raised, result, apiCalls, wrapper,
                 clock, events_left, pc>>
LoopUnexpected ==
  /\ UNCHANGED <<stack, rag>>
  /\ InLoop /\ NextItem # StreamFault
  /\ ~HasKey(NextItem, "chunk") /\ ~HasKey(NextItem, "trace")
  /\ pos' = pos + 1
  /\ exc' = Some(UnexpectedEvent)
  /\ pc' = "except"
  /\ UNCHANGED <<start_time, time_to_first_token, time_at_first_token,
                 completion, agent_answer, end_event_received, trace_data,
                 ResponseMetadata, raised, result, apiCalls, wrapper, clock,
                 events_left>>

\* if not end_event_received: raise Exception("End event not received.")
EndCheckRemoved(received) == FALSE
EndCheckRaises(received) == ~received

\* the tuple invoke_agent returns
ReturnValueShort(metadata, answer, traces) == <<answer, traces>>
ReturnValue(metadata, answer, traces) == <<metadata, answer, traces>>

\* after the loop: the end-event check, the two timings, the return
AfterLoopMetadataFirst ==
  /\ UNCHANGED <<stack, rag>>
  /\ pc = "loop" /\ StreamExhausted
  /\ IF EndCheckRaises(end_event_received)
       THEN /\ exc' = Some(EndEventNotReceived)
            /\ pc' = "except"
            /\ ResponseMetadata' =
                 [ResponseMetadata EXCEPT
                    !.time_to_first_token = Some(time_to_first_token)]
            /\ UNCHANGED <<result, clock>>
       ELSE \E t \in Times :
              /\ clock' = t
              /\ ResponseMetadata' =
                   [time_to_first_token |-> Some(time_to_first_token),
                    time_to_last_token |-> Some(t - Val(time_at_first_token))]
              /\ result' =
                   Some(ReturnValue(ResponseMetadata', agent_answer, trace_data))
              /\ pc' = "returned"
              /\ UNCHANGED exc
  /\ UNCHANGED <<start_time, time_to_first_token, time_at_first_token,
                 completion, pos, agent_answer, end_event_received,
                 trace_data, raised, apiCalls, wrapper, events_left>>
AfterLoop ==
  /\ UNCHANGED <<stack, rag>>
  /\ pc = "loop" /\ StreamExhausted
  /\ IF EndCheckRaises(end_event_received)
       THEN /\ exc' = Some(EndEventNotReceived)
            /\ pc' = "except"
            /\ UNCHANGED <<ResponseMetadata, result, clock>>
       ELSE IF time_at_first_token = None
         THEN \* time.time() - None
              /\ \E t \in Times : clock' = t
              /\ exc' = Some(Exc("TypeError", "unsupported operand"))
              /\ pc' = "except"
              /\ ResponseMetadata' =
                   [ResponseMetadata EXCEPT
                      !.time_to_first_token = Some(time_to_first_token)]
              /\ UNCHANGED result
         ELSE \E t \in Times :
              /\ clock' = t
              /\ ResponseMetadata' =
                   [time_to_first_token |-> Some(time_to_first_token),
                    time_to_last_token |-> Some(t - Val(time_at_first_token))]
              /\ result' =
                   Some(ReturnValue(ResponseMetadata', agent_answer, trace_data))
              /\ pc' = "returned"
              /\ UNCHANGED exc
  /\ UNCHANGED <<start_time, time_to_first_token, time_at_first_token,
                 completion, pos, agent_answer, end_event_received,
                 trace_data, raised, apiCalls, wrapper, events_left>>

\* except Exception as e: raise e
ReraiseWrapped(e) == Exc("Exception", "agent invocation failed")
Reraise(e) == e

ExceptReraise ==
  /\ UNCHANGED <<stack, rag>>
  /\ pc = "except"
  /\ raised' = Some(Reraise(Val(exc)))
  /\ pc' = "raised"
  /\ UNCHANGED <<start_time, time_to_first_token, time_at_first_token,
                 completion, pos, agent_answer, end_event_received,
                 trace_data, ResponseMetadata, exc, result, apiCalls, wrapper,
                 clock, events_left>>

\* ------------------------------------------------------- feedback functions
\* def observation_level_feedback(feedback): pass
ObservationFeedbackChecked ==
  /\ UNCHANGED <<stack, rag>>
  /\ pc = "body" /\ func = "observation_level_feedback"
  /\ IF \E i \in 1..Len(log) : log[i].run_id = args[1].f_run_id
       THEN /\ result' = Some(None)
            /\ pc' = "returned"
            /\ UNCHANGED raised
       ELSE /\ raised' = Some(Exc("KeyError", "f_run_id"))
            /\ pc' = "raised"
            /\ UNCHANGED result
  /\ UNCHANGED <<start_time, time_to_first_token, time_at_first_token,
                 completion, pos, agent_answer, end_event_received,
                 trace_data, ResponseMetadata, exc, apiCalls, wrapper,
                 clock, events_left>>
observation_level_feedback ==
  /\ UNCHANGED <<stack, rag>>
  /\ pc = "body" /\ func = "observation_level_feedback"
  /\ result' = Some(None)
  /\ pc' = "returned"
  /\ UNCHANGED <<start_time, time_to_first_token, time_at_first_token,
                 completion, pos, agent_answer, end_event_received,
                 trace_data, ResponseMetadata, exc, raised, apiCalls, wrapper,
                 clock, events_left>>

\* def session_level_feedback(feedback): pass
session_level_feedback ==
  /\ UNCHANGED <<stack, rag>>
  /\ pc = "body" /\ func = "session_level_feedback"
  /\ result' = Some(None)
  /\ pc' = "returned"
  /\ UNCHANGED <<start_time, time_to_first_token, time_at_first_token,
                 completion, pos, agent_answer, end_event_received,
                 trace_data, ResponseMetadata, exc, raised, apiCalls, wrapper,
                 clock, events_left>>

\* ------------------------------------------------ BedrockLogs.watch, exit
\* call_type given to the decorator of each wrapped function
CallTypeShared(f) == IF f = "invoke_agent" THEN "agent-in-prod" ELSE "feedback"
CallType(f) ==
  CASE f = "invoke_agent" -> "agent-in-prod"
    [] f = "observation_level_feedback" -> "observation-feedback"
    [] f = "session_level_feedback" -> "session-feedback"

\* the identifiers minted for the call that returns
MintRunIdOfSession == Uuid(1)
MintRunId == Uuid(nextId)
MintObservationIdReused == Uuid(1)
MintObservationId == Uuid(nextId + 1)

\* the Invocation Record of a call
InvocationRecord(f, input, output, run_id, observation_id, t) ==
  [run_id |-> run_id, observation_id |-> observation_id,
   call_type |-> CallType(f), captured_input |-> input,
   captured_output |-> output, timestamp |-> t]

\* the sink after one more record is written
SinkWriteOverwrite(sink, rec) == <<rec>>
SinkWrite(sink, rec) == Append(sink, rec)

\* what the wrapped call returns: the result, the record, the identifiers
WrappedResult(res, rec, run_id, observation_id) ==
  <<res, rec, run_id, observation_id>>

ResetLocals ==
  /\ start_time' = None
  /\ time_to_first_token' = None
  /\ time_at_first_token' = None
  /\ completion' = <<>>
  /\ pos' = 0
  /\ agent_answer' = None
  /\ end_event_received' = FALSE
  /\ trace_data' = <<>>
  /\ ResponseMetadata' = EmptyMetadata
  /\ exc' = None
  /\ raised' = None
  /\ result' = None
  /\ apiCalls' = 0
  /\ func' = "none"
  /\ args' = <<>>
  /\ captured_input' = None

\* the callable returned: the record is written and the call returns
WatchReturn ==
  /\ UNCHANGED <<stack, rag>>
  /\ pc = "returned"
  /\ \E t \in Times :
       LET run_id == MintRunId
           observation_id == MintObservationId
           rec == InvocationRecord(func, Val(captured_input), Val(result),
                                   run_id, observation_id, t)
       IN /\ clock' = t
          /\ log' = SinkWrite(log, rec)
          /\ calls' = Append(calls, [func |-> func, args |-> args])
          /\ ret' = Some(WrappedResult(Val(result), rec, run_id, observation_id))
          /\ nb_ids' = IF func = "invoke_agent"
                         THEN Some(<<run_id, observation_id>>) ELSE nb_ids
  /\ nextId' = nextId + 2
  /\ callerErr' = None
  /\ pc' = "idle"
  /\ ResetLocals
  /\ UNCHANGED <<ncalls, events_left>>

\* the error the caller of the wrapped call sees when the callable raised e
PropagateSwallowed(e) == None
Propagate(e) == Some(e)

\* the callable raised: the wrapper lets the error through
WatchRaise ==
  /\ UNCHANGED <<stack, rag>>
  /\ pc = "raised"
  /\ callerErr' = Propagate(Val(raised))
  /\ ret' = None
  /\ pc' = "idle"
  /\ ResetLocals
  /\ UNCHANGED <<ncalls, log, calls, nextId, nb_ids, clock, events_left>>

Next ==
  \/ InvokeAgentCell
  \/ ObservationFeedbackCell
  \/ SessionFeedbackCell
  \/ InvokeAgentApi
  \/ LoopFault
  \/ LoopChunk
  \/ LoopTrace
  \/ LoopUnexpected
  \/ AfterLoop
  \/ ExceptReraise
  \/ observation_level_feedback
  \/ session_level_feedback
  \/ WatchReturn
  \/ WatchRaise

Spec == Init /\ [][Next]_vars

\* ===================================================== properties: invoke_agent
IsChunk(e) == e # StreamFault /\ HasKey(e, "chunk")
IsTrace(e) == e # StreamFault /\ ~HasKey(e, "chunk") /\ HasKey(e, "trace")
IsUnrecognized(e) ==
  e # StreamFault /\ ~HasKey(e, "chunk") /\ ~HasKey(e, "trace")
Indices(s) == 1..Len(s)
\* the agent API returned a response, whose stream is completion
Responded == apiCalls = 1 /\ exc # Some(ClientError)
ContainsChunk == \E i \in Indices(completion) : IsChunk(completion[i])
OnlyTraces == \A i \in Indices(completion) : IsTrace(completion[i])
ContainsFault == \E i \in Indices(completion) : completion[i] = StreamFault
InvokeReturned == pc = "returned" /\ func = "invoke_agent"
InvokeRaised == pc = "raised" /\ func = "invoke_agent"

\* C1 as stated: whenever the stream of the response holds no chunk event (and
\* iterating it does not fail), invoke_agent raises 'End event not received.'
\* and returns nothing.
C1_NoChunkRaisesEndEvent ==
  (InvokeRaised /\ Responded /\ ~ContainsChunk /\ ~ContainsFault)
    => (raised = Some(EndEventNotReceived) /\ result = None)

\* C1 amended: invoke_agent returns normally only if its stream held a chunk
\* event, and for every stream made only of trace events (the empty stream
\* included) it raises 'End event not received.' and returns nothing.
C1_EndEventRequired ==
  /\ InvokeReturned => ContainsChunk
  /\ (InvokeRaised /\ Responded /\ OnlyTraces)
       => (raised = Some(EndEventNotReceived) /\ result = None)

\* a stream of trace events only was read to its end and the call raised
C1_Witness ==
  /\ InvokeRaised /\ Responded /\ OnlyTraces /\ Len(completion) >= 2
  /\ pos = Len(completion)
  /\ raised = Some(EndEventNotReceived)

\* C2: when the loop reaches an event that is neither a chunk nor a trace, at
\* any position and also after a chunk, invoke_agent raises 'Unexpected event.';
\* for a stream that holds such an event it never returns a result.
C2_UnexpectedEventRaises ==
  /\ (func = "invoke_agent" /\ pos >= 1 /\ IsUnrecognized(completion[pos]))
       => /\ pc \in {"except", "raised"}
          /\ exc = Some(UnexpectedEvent)
          /\ pc = "raised" => raised = Some(UnexpectedEvent)
  /\ (\E i \in Indices(completion) : IsUnrecognized(completion[i]))
       => (pc # "returned" /\ result = None)

\* the unrecognized event came after a chunk was received
C2_Witness ==
  /\ InvokeRaised /\ pos >= 2 /\ IsUnrecognized(completion[pos])
  /\ end_event_received
  /\ raised = Some(UnexpectedEvent)

\* C3: an error of the agent API call or of the iteration of its stream leaves
\* invoke_agent as that same error; the API is called at most once per
\* invocation, and after an error nothing is retried or recovered.
C3_ErrorsPropagateUnmodified ==
  /\ apiCalls <= 1
  /\ exc # None => (pc \in {"except", "raised"} /\ result = None)
  /\ pc = "raised" => raised = exc
  /\ pc = "except" => raised = None

\* the stream failed after a chunk had been received, and the error got out
C3_Witness ==
  /\ InvokeRaised /\ end_event_received
  /\ completion[pos] = StreamFault
  /\ raised = Some(EventStreamError)

\* C4: whenever invoke_agent returns normally, every event of the stream of the
\* response has been read.
C4_StreamConsumedBeforeReturn ==
  InvokeReturned => (pos = Len(completion) /\ ~ContainsFault)

\* a normal return from a stream that went on after its first chunk
C4_Witness ==
  /\ InvokeReturned /\ Len(completion) >= 3 /\ IsChunk(completion[1])
  /\ pos = Len(completion)

\* ================================================ properties: BedrockLogs.watch
\* the step in which a wrapped call returns to its caller
WatchReturns == pc = "returned" /\ pc' = "idle"
\* the step in which a wrapped call ends with an error
WatchRaises == pc = "raised" /\ pc' = "idle"
\* the identifiers of the records of the sink
LoggedIds == {log[i].run_id : i \in Indices(log)}
               \cup {log[i].observation_id : i \in Indices(log)}

\* C5: a successful wrapped call returns the result of the callable together
\* with a run_id and an observation_id that are not null and that no earlier
\* call was given; the result of invoke_agent is the tuple (ResponseMetadata,
\* agent_answer, trace_data), and the wrapped result unpacks into the four
\* values results, log, run_id, observation_id.
C5_ResultAugmentedWithIds ==
  [][WatchReturns =>
       /\ ret' # None
       /\ Len(Val(ret')) = 4
       /\ Val(ret')[1] = Val(result)
       /\ Val(ret')[3] # None /\ Val(ret')[4] # None
       /\ Val(ret')[3] # Val(ret')[4]
       /\ Val(ret')[3] \notin LoggedIds /\ Val(ret')[4] \notin LoggedIds
       /\ func = "invoke_agent" =>
            /\ Len(Val(result)) = 3
            /\ Val(result)[1] = ResponseMetadata
            /\ Val(result)[2] = agent_answer
            /\ Val(result)[3] = trace_data
            /\ nb_ids' = Some(<<Val(ret')[3], Val(ret')[4]>>)]_vars

\* invoke_agent returned through the wrapper after an earlier wrapped call
C5_Witness ==
  /\ pc = "idle" /\ ret # None /\ Len(log) = 2
  /\ log[2].call_type = "agent-in-prod"
  /\ Len(Val(ret)[1]) = 3 /\ Len(Val(ret)[1][3]) >= 1
  /\ nb_ids = Some(<<Val(ret)[3], Val(ret)[4]>>)

\* C6: the captured input of a record is the first positional argument of the
\* call that wrote it: two calls of one wrapped callable with the same first
\* argument write the same captured input whatever their later arguments, and
\* agent_id, agent_alias_id and session_id never are the captured input.
C6_OnlyFirstArgumentCaptured ==
  /\ Len(calls) = Len(log)
  /\ \A i \in Indices(log) :
       /\ calls[i].func = "invoke_agent" =>
            /\ \A k \in 2..4 : log[i].captured_input # calls[i].args[k]
            /\ log[i].captured_input = calls[i].args[1]
       /\ calls[i].func # "invoke_agent" =>
            log[i].captured_input = calls[i].args[1]
  /\ \A i, j \in Indices(log) :
       (/\ calls[i].func = calls[j].func
        /\ calls[i].args[1] = calls[j].args[1])
         => log[i].captured_input = log[j].captured_input

\* two invoke_agent calls with the same question and different later arguments
C6_Witness ==
  /\ Len(log) = 2
  /\ calls[1].func = "invoke_agent" /\ calls[2].func = "invoke_agent"
  /\ calls[1].args[1] = calls[2].args[1]
  /\ calls[1].args[2] # calls[2].args[2]
  /\ calls[1].args[4] # calls[2].args[4]

\* C7: when the wrapped callable raises, the caller of the wrapped call gets
\* that very error, and neither a result nor identifiers.
C7_WrapperPropagatesError ==
  [][WatchRaises =>
       /\ callerErr' = raised
       /\ raised = exc
       /\ ret' = None
       /\ nb_ids' = nb_ids
       /\ nextId' = nextId]_vars

\* a wrapped call failed after an earlier one had returned identifiers
C7_Witness ==
  /\ pc = "idle" /\ callerErr = Some(UnexpectedEvent) /\ ret = None
  /\ nb_ids # None

\* C8: no two Invocation Records of the sink carry the same observation_id.
C8_ObservationIdUnique ==
  \A i, j \in Indices(log) :
    i # j => log[i].observation_id # log[j].observation_id

\* an agent invocation and a feedback on it are both in the sink
C8_Witness ==
  /\ Len(log) = 2
  /\ log[1].call_type = "agent-in-prod"
  /\ log[2].call_type = "observation-feedback"
  /\ log[2].captured_input.f_observation_id = log[1].observation_id

\* the session an invoke_agent call belongs to: its session_id argument
SessionOf(c) == c.args[4]

C10_LogAppendOnly ==
  [][/\ WatchReturns => Len(log') = Len(log) + 1
     /\ ~WatchReturns => Len(log') = Len(log)
     /\ SubSeq(log', 1, Len(log)) = log]_vars

\* the sink holds two records
C10_Witness ==
  /\ Len(log) = 2 /\ pc = "idle"
  /\ log[1].call_type = "agent-in-prod" /\ log[2].call_type = "session-feedback"

\* ============================================ properties: feedback and sink
FeedbackFuncs == {"observation_level_feedback", "session_level_feedback"}
\* the run_ids of the records of the sink
LoggedRunIds == {log[i].run_id : i \in Indices(log)}

\* C11: a feedback call is accepted and logged whether or not its f_run_id or
\* f_observation_id is the identifier of a record: the feedback functions
\* never raise, and the record of a feedback call holds the feedback as it was
\* passed, no output, and the call_type of its function.
C11_NoReferentialIntegrity ==
  /\ func \in FeedbackFuncs =>
       /\ pc \notin {"except", "raised"}
       /\ raised = None /\ exc = None
  /\ Len(calls) = Len(log)
  /\ \A i \in Indices(log) :
       calls[i].func \in FeedbackFuncs =>
         /\ log[i].captured_input = calls[i].args[1]
         /\ log[i].captured_output = None
         /\ log[i].call_type = CallType(calls[i].func)
         /\ log[i].run_id \notin {log[j].run_id : j \in 1..(i - 1)}

\* after a record of invoke_agent, a feedback whose f_run_id is the run_id of
\* no record was logged
C11_Witness ==
  /\ pc = "idle" /\ Len(log) = 2 /\ callerErr = None
  /\ log[1].call_type = "agent-in-prod"
  /\ calls[2].func = "observation_level_feedback"
  /\ log[2].captured_input.f_run_id \notin LoggedRunIds
  /\ log[2].captured_input.f_observation_id \notin LoggedIds

\* the records of the sink under the partition of a call_type
Partition(ct) == {i \in Indices(log) : log[i].call_type = ct}

\* C12: a record is under the partition of the call_type of the wrapper that
\* wrote it: the records of invoke_agent under 'agent-in-prod', those of
\* observation_level_feedback under 'observation-feedback', those of
\* session_level_feedback under 'session-feedback', and under no other.
C12_PartitionByCallType ==
  /\ Len(calls) = Len(log)
  /\ Partition("agent-in-prod") =
       {i \in Indices(log) : calls[i].func = "invoke_agent"}
  /\ Partition("observation-feedback") =
       {i \in Indices(log) : calls[i].func = "observation_level_feedback"}
  /\ Partition("session-feedback") =
       {i \in Indices(log) : calls[i].func = "session_level_feedback"}
  /\ \A i, j \in Indices(log) :
       calls[i].func # calls[j].func => log[i].call_type # log[j].call_type

\* the two kinds of feedback were logged, each under its partition
C12_Witness ==
  /\ Len(log) = 2
  /\ Partition("observation-feedback") # {}
  /\ Partition("session-feedback") # {}

\* =========================================== properties: invoke_agent results
\* C15: when invoke_agent returns, trace_data holds one item for each trace
\* event of the stream and nothing else, in the order of the stream: the
\* payload of the event with a start_trace_time.
C15_TracesInStreamOrder ==
  InvokeReturned =>
    LET traces == SelectSeq(completion, IsTrace) IN
      /\ Len(trace_data) = Len(traces)
      /\ \A i \in Indices(trace_data) :
           /\ trace_data[i].trace = traces[i].trace
           /\ DOMAIN trace_data[i] = {"trace", "start_trace_time"}
           /\ trace_data[i].start_trace_time \in Nat
      /\ \A i, j \in Indices(trace_data) :
           i < j => trace_data[i].start_trace_time
                      < trace_data[j].start_trace_time
      /\ Val(result)[3] = trace_data

\* invoke_agent returned after two trace events of different payloads
C15_Witness ==
  /\ InvokeReturned /\ Len(trace_data) = 2
  /\ trace_data[1].trace # trace_data[2].trace

\* C16: when invoke_agent returns, agent_answer is the decoded payload of the
\* last chunk event of the stream, whatever the chunk events before it held.
C16_LastChunkIsAnswer ==
  InvokeReturned =>
    LET chunks == SelectSeq(completion, IsChunk) IN
      /\ chunks # <<>>
      /\ agent_answer = Some(decode(chunks[Len(chunks)].bytes))
      /\ Val(result)[2] = agent_answer

\* invoke_agent returned after two chunk events of different payloads
C16_Witness ==
  /\ InvokeReturned /\ Len(completion) = 3
  /\ IsChunk(completion[1]) /\ IsChunk(completion[3])
  /\ completion[1].bytes # completion[3].bytes
  /\ agent_answer # Some(decode(completion[1].bytes))

C18_MetadataOnlyOnReturn ==
  /\ pc \in {"except", "raised"} => ResponseMetadata = EmptyMetadata
  /\ ResponseMetadata # EmptyMetadata =>
       /\ InvokeReturned /\ StreamExhausted /\ end_event_received
       /\ ResponseMetadata.time_to_first_token = Some(time_to_first_token)
       /\ ResponseMetadata.time_to_last_token # None
  /\ InvokeReturned => ResponseMetadata # EmptyMetadata

\* invoke_agent raised on an unexpected event after the first chunk was timed
C18_Witness ==
  /\ InvokeRaised /\ raised = Some(UnexpectedEvent)
  /\ time_to_first_token # None /\ end_event_received

\* =============================================== infrastructure.yaml: template
\* Parameters of the template
ParameterNames ==
  {"Vpccidr", "PublicSubnetAcidr", "PublicSubnetBcidr", "PrivateSubnetAcidr",
   "PrivateSubnetBcidr", "EnvironmentName"}

\* pseudo parameters CloudFormation defines for every template
PseudoParameters ==
  {"AWS::AccountId", "AWS::NotificationARNs", "AWS::NoValue", "AWS::Partition",
   "AWS::Region", "AWS::StackId", "AWS::StackName", "AWS::URLSuffix"}

\* Mappings: ELBRegionMap
ELBRegionMap ==
  [rg \in {"us-east-1", "us-west-2"} |->
     [ELBAccountId |-> IF rg = "us-east-1" THEN "127311923021"
                                            ELSE "797873946194"]]

\* regions a stack of the template is created in
Regions == {"us-east-1", "us-west-2", "eu-west-1"}

\* logical ids of Resources
ResourceNames ==
  {"StreamlitCluster", "LogsPolicy", "LoggingBucket", "LoggingBucketPolicy",
   "VPC", "VPCLogGroup", "VPCLogRole", "VPCFlowLog", "InternetGateway",
   "InternetGatewayAttachment", "PublicSubnetA", "PublicSubnetB",
   "PrivateSubnetA", "PrivateSubnetB", "NatGatewayAEIP", "NatGatewayBEIP",
   "NatGatewayA", "NatGatewayB", "PublicRouteTable", "DefaultPublicRoute",
   "PublicSubnetARouteTableAssociation", "PublicSubnetBRouteTableAssociation",
   "PrivateRouteTableA", "DefaultPrivateRouteA",
   "PrivateSubnetARouteTableAssociation", "PrivateRouteTableB",
   "DefaultPrivateRouteB", "PrivateSubnetBRouteTableAssociation"}

\* the targets of the !Ref of each resource
RefTargets ==
  [r \in ResourceNames |->
     CASE r = "StreamlitCluster" -> {"EnvironmentName"}
       [] r = "LoggingBucketPolicy" -> {"LoggingBucket", "AWS::Region"}
       [] r = "VPC" -> {"Vpccidr"}
       [] r = "VPCFlowLog" -> {"VPC", "VPCLogGroup"}
       [] r = "InternetGatewayAttachment" -> {"InternetGateway", "VPC"}
       [] r = "PublicSubnetA" -> {"PublicSubnetAcidr", "VPC", "AWS::Region"}
       [] r = "PublicSubnetB" -> {"PublicSubnetBcidr", "VPC", "AWS::Region"}
       [] r = "PrivateSubnetA" -> {"PrivateSubnetAcidr", "VPC", "AWS::Region"}
       [] r = "PrivateSubnetB" -> {"PrivateSubnetBcidr", "VPC", "AWS::Region"}
       [] r = "NatGatewayA" -> {"PublicSubnetA"}
       [] r = "NatGatewayB" -> {"PublicSubnetB"}
       [] r = "PublicRouteTable" -> {"VPC"}
       [] r = "DefaultPublicRoute" -> {"PublicRouteTable", "InternetGateway"}
       [] r = "PublicSubnetARouteTableAssociation" ->
            {"PublicRouteTable", "PublicSubnetA"}
       [] r = "PublicSubnetBRouteTableAssociation" ->
            {"PublicRouteTable", "PublicSubnetB"}
       [] r = "PrivateRouteTableA" -> {"VPC"}
       [] r = "DefaultPrivateRouteA" -> {"PrivateRouteTableA", "NatGatewayA"}
       [] r = "PrivateSubnetARouteTableAssociation" ->
            {"PrivateRouteTableA", "PrivateSubnetA"}
       [] r = "PrivateRouteTableB" -> {"VPC"}
       [] r = "DefaultPrivateRouteB" -> {"PrivateRouteTableB", "NatGatewayB"}
       [] r = "PrivateSubnetBRouteTableAssociation" ->
            {"PrivateRouteTableB", "PrivateSubnetB"}
       [] OTHER -> {}]

\* the resources named by the !GetAtt of each resource
GetAttTargetsMistyped ==
  [r \in ResourceNames |->
     CASE r = "VPCLogRole" -> {"LogPolicy"}
       [] r = "VPCFlowLog" -> {"VPCLogRole"}
       [] r = "NatGatewayA" -> {"NatGatewayAEIP"}
       [] r = "NatGatewayB" -> {"NatGatewayBEIP"}
       [] OTHER -> {}]
GetAttTargets ==
  [r \in ResourceNames |->
     CASE r = "VPCLogRole" -> {"LogsPolicy"}
       [] r = "VPCFlowLog" -> {"VPCLogRole"}
       [] r = "NatGatewayA" -> {"NatGatewayAEIP"}
       [] r = "NatGatewayB" -> {"NatGatewayBEIP"}
       [] OTHER -> {}]

\* the ${...} variables of the !Sub of each resource
SubTargets ==
  [r \in ResourceNames |->
     CASE r = "LogsPolicy" -> {"EnvironmentName"}
       [] r = "LoggingBucketPolicy" ->
            {"LoggingBucket", "ElbAccount", "AWS::AccountId"}
       [] OTHER -> {}]

\* the variables a !Sub of the resource defines itself
SubLocals ==
  [r \in ResourceNames |->
     IF r = "LoggingBucketPolicy" THEN {"ElbAccount"} ELSE {}]

\* the DependsOn attribute of each resource
DependsOnWithCycle ==
  [r \in ResourceNames |->
     IF r \in {"NatGatewayAEIP", "NatGatewayBEIP", "DefaultPublicRoute"}
       THEN {"InternetGatewayAttachment"}
     ELSE IF r = "InternetGateway" THEN {"DefaultPublicRoute"}
     ELSE {}]
DependsOnWithoutEIP ==
  [r \in ResourceNames |->
     IF r \in {"DefaultPublicRoute"}
       THEN {"InternetGatewayAttachment"} ELSE {}]
DependsOn ==
  [r \in ResourceNames |->
     IF r \in {"NatGatewayAEIP", "NatGatewayBEIP", "DefaultPublicRoute"}
       THEN {"InternetGatewayAttachment"} ELSE {}]

\* Outputs: the value of each output, and the name it is exported under
OutputsWithoutPolicies ==
  [o \in {"VPC", "LoggingBucket", "PublicSubnetA", "PublicSubnetB",
          "PrivateSubnetA", "PrivateSubnetB", "StreamlitCluster"} |->
     [fn |-> "Ref", target |-> o,
      export |-> IF o = "StreamlitCluster"
                   THEN <<"StreamlitCluster">> ELSE <<"Basic-", o>>]]
Outputs ==
  [o \in {"VPC", "LogsPolicy", "LoggingBucket", "LoggingBucketPolicy",
          "PublicSubnetA", "PublicSubnetB", "PrivateSubnetA", "PrivateSubnetB",
          "StreamlitCluster"} |->
     [fn |-> IF o = "LogsPolicy" THEN "GetAtt.PolicyArn" ELSE "Ref",
      target |-> o,
      export |-> IF o = "StreamlitCluster"
                   THEN <<"StreamlitCluster">> ELSE <<"Basic-", o>>]]

\* Properties of the AWS::EC2::Subnet resources; AvailabilityZone is the index
\* !Select takes of Fn::GetAZs
SubnetProperties ==
  [n \in {"PublicSubnetA", "PublicSubnetB", "PrivateSubnetA", "PrivateSubnetB"}
     |->
     CASE n = "PublicSubnetA" ->
            [CidrBlock |-> "PublicSubnetAcidr", VpcId |-> "VPC",
             AvailabilityZone |-> 0]
       [] n = "PublicSubnetB" ->
            [CidrBlock |-> "PublicSubnetBcidr", VpcId |-> "VPC",
             AvailabilityZone |-> 1]
       [] n = "PrivateSubnetA" ->
            [CidrBlock |-> "PrivateSubnetAcidr", VpcId |-> "VPC",
             AvailabilityZone |-> 0]
       [] n = "PrivateSubnetB" ->
            [CidrBlock |-> "PrivateSubnetBcidr", VpcId |-> "VPC",
             AvailabilityZone |-> 1]]

\* Properties of the AWS::EC2::RouteTable resources
RouteTableProperties ==
  [t \in {"PublicRouteTable", "PrivateRouteTableA", "PrivateRouteTableB"} |->
     [VpcId |-> "VPC"]]

\* Properties of the AWS::EC2::SubnetRouteTableAssociation resources
SubnetRouteTableAssociationPropertiesShared ==
  [a \in {"PublicSubnetARouteTableAssociation",
          "PublicSubnetBRouteTableAssociation",
          "PrivateSubnetARouteTableAssociation",
          "PrivateSubnetBRouteTableAssociation"} |->
     CASE a = "PublicSubnetARouteTableAssociation" ->
            [RouteTableId |-> "PublicRouteTable", SubnetId |-> "PublicSubnetA"]
       [] a = "PublicSubnetBRouteTableAssociation" ->
            [RouteTableId |-> "PublicRouteTable", SubnetId |-> "PublicSubnetB"]
       [] a = "PrivateSubnetARouteTableAssociation" ->
            [RouteTableId |-> "PrivateRouteTableA",
             SubnetId |-> "PrivateSubnetA"]
       [] a = "PrivateSubnetBRouteTableAssociation" ->
            [RouteTableId |-> "PrivateRouteTableA",
             SubnetId |-> "PrivateSubnetB"]]
SubnetRouteTableAssociationProperties ==
  [a \in {"PublicSubnetARouteTableAssociation",
          "PublicSubnetBRouteTableAssociation",
          "PrivateSubnetARouteTableAssociation",
          "PrivateSubnetBRouteTableAssociation"} |->
     CASE a = "PublicSubnetARouteTableAssociation" ->
            [RouteTableId |-> "PublicRouteTable", SubnetId |-> "PublicSubnetA"]
       [] a = "PublicSubnetBRouteTableAssociation" ->
            [RouteTableId |-> "PublicRouteTable", SubnetId |-> "PublicSubnetB"]
       [] a = "PrivateSubnetARouteTableAssociation" ->
            [RouteTableId |-> "PrivateRouteTableA",
             SubnetId |-> "PrivateSubnetA"]
       [] a = "PrivateSubnetBRouteTableAssociation" ->
            [RouteTableId |-> "PrivateRouteTableB",
             SubnetId |-> "PrivateSubnetB"]]

\* Properties of the AWS::EC2::NatGateway resources
NatGatewayPropertiesOneSubnet ==
  [g \in {"NatGatewayA", "NatGatewayB"} |->
     IF g = "NatGatewayA"
       THEN [AllocationId |-> "NatGatewayAEIP", SubnetId |-> "PublicSubnetA"]
       ELSE [AllocationId |-> "NatGatewayBEIP", SubnetId |-> "PublicSubnetA"]]
NatGatewayProperties ==
  [g \in {"NatGatewayA", "NatGatewayB"} |->
     IF g = "NatGatewayA"
       THEN [AllocationId |-> "NatGatewayAEIP", SubnetId |-> "PublicSubnetA"]
       ELSE [AllocationId |-> "NatGatewayBEIP", SubnetId |-> "PublicSubnetB"]]

\* Properties of the AWS::EC2::Route resources
RouteProperties ==
  [x \in {"DefaultPublicRoute", "DefaultPrivateRouteA", "DefaultPrivateRouteB"}
     |->
     CASE x = "DefaultPublicRoute" ->
            [RouteTableId |-> "PublicRouteTable",
             DestinationCidrBlock |-> "0.0.0.0/0",
             Target |-> <<"GatewayId", "InternetGateway">>]
       [] x = "DefaultPrivateRouteA" ->
            [RouteTableId |-> "PrivateRouteTableA",
             DestinationCidrBlock |-> "0.0.0.0/0",
             Target |-> <<"NatGatewayId", "NatGatewayA">>]
       [] x = "DefaultPrivateRouteB" ->
            [RouteTableId |-> "PrivateRouteTableB",
             DestinationCidrBlock |-> "0.0.0.0/0",
             Target |-> <<"NatGatewayId", "NatGatewayB">>]]

\* the resources a resource names through !Ref, !GetAtt, !Sub or DependsOn
Dependencies(r) ==
  (RefTargets[r] \cup GetAttTargets[r] \cup SubTargets[r] \cup DependsOn[r])
    \cap ResourceNames

\* the targets of the template that resolve to nothing the template declares
UnresolvedTargets ==
  LET Declared == ResourceNames \cup ParameterNames \cup PseudoParameters IN
    UNION {(RefTargets[r] \ Declared)
             \cup (GetAttTargets[r] \ ResourceNames)
             \cup (DependsOn[r] \ ResourceNames)
             \cup (SubTargets[r] \ (Declared \cup SubLocals[r]))
           : r \in ResourceNames}
      \cup {Outputs[o].target : o \in
              {x \in DOMAIN Outputs :
                 IF Outputs[x].fn = "Ref"
                   THEN Outputs[x].target \notin Declared
                   ELSE Outputs[x].target \notin ResourceNames}}

\* the resources that depend on themselves, directly or not
CircularDependencies ==
  LET RECURSIVE Reach(_, _)
      Reach(seen, frontier) ==
        IF frontier = {} THEN seen
        ELSE LET next == UNION {Dependencies(x) : x \in frontier} IN
               Reach(seen \cup next, next \ seen)
  IN {r \in ResourceNames : r \in Reach({}, {r})}

\* the route table associations that exist for a subnet
AssociationsOf(subnet) ==
  {a \in DOMAIN SubnetRouteTableAssociationProperties \cap created :
     SubnetRouteTableAssociationProperties[a].SubnetId = subnet}

\* the route tables a subnet is associated with
RouteTablesOf(subnet) ==
  {SubnetRouteTableAssociationProperties[a].RouteTableId :
     a \in AssociationsOf(subnet)}

\* the default routes that exist in a route table
DefaultRoutesOf(table) ==
  {x \in DOMAIN RouteProperties \cap created :
     /\ RouteProperties[x].RouteTableId = table
     /\ RouteProperties[x].DestinationCidrBlock = "0.0.0.0/0"}

\* !FindInMap [ELBRegionMap, !Ref 'AWS::Region', ELBAccountId] has a value
FindInMapResolvesAnywhere(rg) == TRUE
FindInMapResolves(rg) == rg \in DOMAIN ELBRegionMap

\* ================================================ infrastructure.yaml: stack
\* CloudFormation takes the template in a region: it refuses a template with a
\* target that does not resolve, a circular dependency or a mapping without
\* the entry asked for, and else starts to create the resources
CreateStack ==
  /\ stack_status = "NONE"
  /\ \E rg \in Regions :
       /\ stack_region' = rg
       /\ stack_error' =
            IF UnresolvedTargets # {} THEN "Unresolved resource dependencies"
            ELSE IF CircularDependencies # {} THEN "Circular dependency"
            ELSE IF ~FindInMapResolves(rg) THEN "Unable to get mapping"
            ELSE "none"
  /\ stack_status' =
       IF stack_error' = "none" THEN "CREATE_IN_PROGRESS" ELSE "REFUSED"
  /\ UNCHANGED <<created, exports, notebook, rag>>

\* a resource is created once all the resources it depends on exist
CreateResource ==
  /\ stack_status = "CREATE_IN_PROGRESS"
  /\ \E r \in ResourceNames \ created :
       /\ Dependencies(r) \subseteq created
       /\ created' = created \cup {r}
  /\ UNCHANGED <<stack_status, stack_region, stack_error, exports, notebook, rag>>

\* all resources exist: the stack is complete and its outputs are exported
CompleteStack ==
  /\ stack_status = "CREATE_IN_PROGRESS"
  /\ created = ResourceNames
  /\ stack_status' = "CREATE_COMPLETE"
  /\ exports' = [o \in DOMAIN Outputs |->
                   [name |-> Outputs[o].export,
                    value |-> <<Outputs[o].fn, Outputs[o].target>>]]
  /\ UNCHANGED <<stack_region, stack_error, created, notebook, rag>>

NextStack == CreateStack \/ CreateResource \/ CompleteStack

SpecStack == Init /\ [][NextStack]_vars


\* ==================================================== retrieve_and_generate
\* Config(connect_timeout=120, read_timeout=120, retries={'max_attempts': 0})
bedrock_config ==
  [connect_timeout |-> 120, read_timeout |-> 120,
   retries |-> [max_attempts |-> 0]]

\* the prompt templates: the default one and the one of the notebook's cells
default_prompt == "default_prompt"
custom_prompt == "custom_prompt"

\* keyword arguments of the calls; prompt_template is None when the call does
\* not pass it
RagKwargs ==
  [query : {"q1", "q2"}, kb_id : {"kb1", "kb2"},
   model_arn : {"haiku-arn", "sonnet-arn"}, max_results : {3, 10},
   prompt_template : {None, Some(custom_prompt), Some(default_prompt)}]

\* def retrieve_and_generate(query, kb_id, model_arn, max_results,
\*                           prompt_template = default_prompt)
BindParameters(kw) ==
  [query |-> kw.query, kb_id |-> kw.kb_id, model_arn |-> kw.model_arn,
   max_results |-> kw.max_results,
   prompt_template |->
     IF kw.prompt_template = None THEN default_prompt
                                  ELSE Val(kw.prompt_template)]

\* the request of bedrock_agent_client.retrieve_and_generate
RetrieveAndGenerateRequestSwapped(p) ==
  [input |-> [text |-> p.query],
   retrieveAndGenerateConfiguration |->
     [type |-> "KNOWLEDGE_BASE",
      knowledgeBaseConfiguration |->
        [knowledgeBaseId |-> p.model_arn,
         modelArn |-> p.kb_id,
         retrievalConfiguration |->
           [vectorSearchConfiguration |-> [numberOfResults |-> p.max_results]],
         generationConfiguration |->
           [promptTemplate |-> [textPromptTemplate |-> p.prompt_template]]]]]
RetrieveAndGenerateRequest(p) ==
  [input |-> [text |-> p.query],
   retrieveAndGenerateConfiguration |->
     [type |-> "KNOWLEDGE_BASE",
      knowledgeBaseConfiguration |->
        [knowledgeBaseId |-> p.kb_id,
         modelArn |-> p.model_arn,
         retrievalConfiguration |->
           [vectorSearchConfiguration |-> [numberOfResults |-> p.max_results]],
         generationConfiguration |->
           [promptTemplate |-> [textPromptTemplate |-> p.prompt_template]]]]]

\* responses of the API: the generated text and the citations
RagResponses ==
  {[output |-> [text |-> "answer"], citations |-> <<"reference">>],
   [output |-> [text |-> "no exact answer"], citations |-> <<>>]}

\* errors of the API: one the client would retry, one it would not
ThrottlingException == Exc("ClientError", "ThrottlingException")
ValidationException == Exc("ClientError", "ValidationException")
RagErrors == {ThrottlingException, ValidationException}

\* the client sends the request again after this error, retries permitting
Retries(config, e, sent) ==
  e = ThrottlingException /\ sent <= config.retries.max_attempts

\* results = retrieve_and_generate(query = query, kb_id = kb_id, ...)
RetrieveAndGenerateCell ==
  /\ rag_pc \in {"idle", "returned", "raised"}
  /\ rag_calls < MaxCalls
  /\ rag_calls' = rag_calls + 1
  /\ \E kw \in RagKwargs :
       /\ rag_kwargs' = Some(kw)
       /\ rag_params' = Some(BindParameters(kw))
  /\ rag_requests' = <<>>
  /\ rag_response' = None
  /\ rag_result' = None
  /\ rag_error' = None
  /\ rag_pc' = "call"
  /\ UNCHANGED <<notebook, stack>>

\* response = bedrock_agent_client.retrieve_and_generate(...): the client
\* sends the request; the API answers or fails
RetrieveAndGenerateApi ==
  /\ rag_pc = "call"
  /\ rag_requests' =
       Append(rag_requests, RetrieveAndGenerateRequest(Val(rag_params)))
  /\ \E outcome \in RagResponses \cup RagErrors :
       IF outcome \in RagResponses
         THEN /\ rag_response' = Some(outcome)
              /\ rag_pc' = "respond"
              /\ UNCHANGED rag_error
         ELSE IF Retries(bedrock_config, outcome, Len(rag_requests'))
           THEN UNCHANGED <<rag_response, rag_pc, rag_error>>
           ELSE /\ rag_error' = Some(outcome)
                /\ rag_pc' = "raised"
                /\ UNCHANGED rag_response
  /\ UNCHANGED <<rag_kwargs, rag_params, rag_result, rag_calls, notebook, stack>>

\* return response
RetrieveAndGenerateReturn ==
  /\ rag_pc = "respond"
  /\ rag_result' = rag_response
  /\ rag_pc' = "returned"
  /\ UNCHANGED <<rag_kwargs, rag_params, rag_requests, rag_response, rag_error,
                 rag_calls, notebook, stack>>

NextRag ==
  \/ RetrieveAndGenerateCell
  \/ RetrieveAndGenerateApi
  \/ RetrieveAndGenerateReturn

SpecRag == Init /\ [][NextRag]_vars

\* ============================================= properties: infrastructure.yaml
\* C13: every !Ref, !GetAtt, DependsOn and ${...} target of Resources and of
\* Outputs resolves to a declared resource, or for !Ref and !Sub also to a
\* parameter, a pseudo parameter or a variable of that !Sub: CloudFormation
\* never refuses the template for an unresolved target, and the targets of a
\* resource exist when it is created.
C13_TargetsResolve ==
  /\ UnresolvedTargets = {}
  /\ stack_error # "Unresolved resource dependencies"
  /\ \A r \in created :
       /\ GetAttTargets[r] \cup DependsOn[r] \subseteq created
       /\ RefTargets[r] \subseteq
            created \cup ParameterNames \cup PseudoParameters
       /\ SubTargets[r] \subseteq
            created \cup ParameterNames \cup PseudoParameters \cup SubLocals[r]
  /\ stack_status = "CREATE_COMPLETE" =>
       \A o \in DOMAIN exports : exports[o].value[2] \in created

\* the resources with a !GetAtt, a !Sub with a local variable and a DependsOn
\* exist while the stack is still being created
C13_Witness ==
  /\ stack_status = "CREATE_IN_PROGRESS"
  /\ {"VPCLogRole", "LoggingBucketPolicy", "NatGatewayAEIP"} \subseteq created
  /\ "VPCFlowLog" \notin created

\* C14 as stated: the parameters are Vpccidr, the four subnet CIDRs and
\* EnvironmentName, and the exported values are exactly the VPC id, the four
\* subnet ids, the logging bucket name and the ECS cluster name.
C14_SevenOutputs ==
  /\ ParameterNames =
       {"Vpccidr", "PublicSubnetAcidr", "PublicSubnetBcidr",
        "PrivateSubnetAcidr", "PrivateSubnetBcidr", "EnvironmentName"}
  /\ stack_status = "CREATE_COMPLETE" =>
       {exports[o].value : o \in DOMAIN exports} =
         {<<"Ref", x>> : x \in {"VPC", "PublicSubnetA", "PublicSubnetB",
                                "PrivateSubnetA", "PrivateSubnetB",
                                "LoggingBucket", "StreamlitCluster"}}

\* C14 amended: the parameters are as stated; the exported values are those
\* seven and two more, the ARN of LogsPolicy and the reference of
\* LoggingBucketPolicy.
C14_NineOutputs ==
  /\ ParameterNames =
       {"Vpccidr", "PublicSubnetAcidr", "PublicSubnetBcidr",
        "PrivateSubnetAcidr", "PrivateSubnetBcidr", "EnvironmentName"}
  /\ Cardinality(DOMAIN Outputs) = Cardinality(ParameterNames) + 3
  /\ \A o \in DOMAIN Outputs : Len(Outputs[o].export) > 0
  /\ stack_status # "CREATE_COMPLETE" => exports = <<>>
  /\ stack_status = "CREATE_COMPLETE" =>
       /\ {exports[o].value : o \in DOMAIN exports} =
            {<<"Ref", x>> : x \in {"VPC", "PublicSubnetA", "PublicSubnetB",
                                   "PrivateSubnetA", "PrivateSubnetB",
                                   "LoggingBucket", "StreamlitCluster",
                                   "LoggingBucketPolicy"}}
              \cup {<<"GetAtt.PolicyArn", "LogsPolicy">>}
       /\ DOMAIN exports = DOMAIN Outputs
       /\ \A o, q \in DOMAIN exports :
            exports[o].name = exports[q].name => o = q

\* the stack is complete and its outputs are exported
C14_Witness ==
  /\ stack_status = "CREATE_COMPLETE"
  /\ "LogsPolicy" \in DOMAIN exports /\ "VPC" \in DOMAIN exports

\* C19: no resource of the template depends on itself, directly or not; a
\* stack creation under way always has a resource it can create next until
\* all exist, every step of it creates one more resource, and it completes
\* only with every declared resource created.
C19_CreationCompletes ==
  /\ CircularDependencies = {}
  /\ stack_error # "Circular dependency"
  /\ (stack_status = "CREATE_IN_PROGRESS" /\ created # ResourceNames)
       => \E r \in ResourceNames \ created : Dependencies(r) \subseteq created
  /\ stack_status = "CREATE_IN_PROGRESS" => created \subseteq ResourceNames
  /\ stack_status = "CREATE_COMPLETE" => created = ResourceNames

\* the stack is complete with all its resources
C19_Witness ==
  /\ stack_status = "CREATE_COMPLETE" /\ created = ResourceNames
  /\ stack_region = "us-west-2"

\* the resources C20 is about: the NAT gateways, their EIPs, the default routes
NeedsGatewayAttachment ==
  DOMAIN NatGatewayProperties
    \cup {NatGatewayProperties[g].AllocationId : g \in DOMAIN NatGatewayProperties}
    \cup {x \in DOMAIN RouteProperties :
            RouteProperties[x].DestinationCidrBlock = "0.0.0.0/0"}

\* C20: whatever the order of creation, InternetGatewayAttachment exists
\* before the EIPs of the NAT gateways, the NAT gateways and every default
\* route, DefaultPrivateRouteA and DefaultPrivateRouteB included.
C20_AttachmentFirst ==
  /\ {"DefaultPrivateRouteA", "DefaultPrivateRouteB", "DefaultPublicRoute",
      "NatGatewayA", "NatGatewayB", "NatGatewayAEIP", "NatGatewayBEIP"}
       = NeedsGatewayAttachment
  /\ \A r \in NeedsGatewayAttachment :
       r \in created => "InternetGatewayAttachment" \in created

\* a private default route exists while other resources are still missing
C20_Witness ==
  /\ stack_status = "CREATE_IN_PROGRESS"
  /\ "DefaultPrivateRouteB" \in created
  /\ "DefaultPublicRoute" \notin created /\ "NatGatewayA" \notin created

\* C21: each subnet has exactly one route table association, to a route table
\* of its VPC with exactly one default route: the public subnets to
\* PublicRouteTable, whose default route goes to the Internet gateway, each
\* private subnet to a private route table of its own, whose default route
\* goes to a NAT gateway.
C21_OneRouteTablePerSubnet ==
  /\ \A n \in DOMAIN SubnetProperties :
       Cardinality({a \in DOMAIN SubnetRouteTableAssociationProperties :
                      SubnetRouteTableAssociationProperties[a].SubnetId = n}) = 1
  /\ \A a, b \in DOMAIN SubnetRouteTableAssociationProperties :
       (/\ a # b
        /\ SubnetRouteTableAssociationProperties[a].RouteTableId
             = SubnetRouteTableAssociationProperties[b].RouteTableId)
         => SubnetRouteTableAssociationProperties[a].RouteTableId
              = "PublicRouteTable"
  /\ \A n \in DOMAIN SubnetProperties :
       /\ Cardinality(AssociationsOf(n)) <= 1
       /\ \A t \in RouteTablesOf(n) :
            /\ n \in created /\ t \in created
            /\ RouteTableProperties[t].VpcId = SubnetProperties[n].VpcId
            /\ Cardinality(DefaultRoutesOf(t)) <= 1
  /\ stack_status = "CREATE_COMPLETE" =>
       /\ \A n \in DOMAIN SubnetProperties :
            /\ Cardinality(AssociationsOf(n)) = 1
            /\ \A t \in RouteTablesOf(n) : Cardinality(DefaultRoutesOf(t)) = 1
       /\ RouteTablesOf("PublicSubnetA") = {"PublicRouteTable"}
       /\ RouteTablesOf("PublicSubnetB") = {"PublicRouteTable"}
       /\ RouteTablesOf("PrivateSubnetA") = {"PrivateRouteTableA"}
       /\ RouteTablesOf("PrivateSubnetB") = {"PrivateRouteTableB"}
       /\ \A x \in DefaultRoutesOf("PublicRouteTable") :
            RouteProperties[x].Target = <<"GatewayId", "InternetGateway">>
       /\ \A x \in DefaultRoutesOf("PrivateRouteTableA")
                     \cup DefaultRoutesOf("PrivateRouteTableB") :
            /\ RouteProperties[x].Target[1] = "NatGatewayId"
            /\ RouteProperties[x].Target[2] \in DOMAIN NatGatewayProperties

\* the four associations and the three default routes exist before the stack
\* is complete
C21_Witness ==
  /\ stack_status = "CREATE_IN_PROGRESS"
  /\ DOMAIN SubnetRouteTableAssociationProperties \subseteq created
  /\ DOMAIN RouteProperties \subseteq created
  /\ created \cap {"StreamlitCluster", "LoggingBucket", "LogsPolicy"} = {}

\* the NAT gateways the default routes of the route tables of a subnet go to
NatGatewaysOf(subnet) ==
  {RouteProperties[x].Target[2] :
     x \in {y \in UNION {DefaultRoutesOf(t) : t \in RouteTablesOf(subnet)} :
              RouteProperties[y].Target[1] = "NatGatewayId"}}

\* C22: the subnets A are in the first Availability Zone and the subnets B in
\* the second; the default route of a private subnet goes to the NAT gateway
\* in the public subnet of the zone of the private subnet, PrivateSubnetA
\* through NatGatewayA in PublicSubnetA, PrivateSubnetB through NatGatewayB in
\* PublicSubnetB, never to a NAT gateway of the other zone.
C22_NatGatewayOfSameZone ==
  /\ SubnetProperties["PublicSubnetA"].AvailabilityZone = 0
  /\ SubnetProperties["PrivateSubnetA"].AvailabilityZone = 0
  /\ SubnetProperties["PublicSubnetB"].AvailabilityZone = 1
  /\ SubnetProperties["PrivateSubnetB"].AvailabilityZone = 1
  /\ \A g, h \in DOMAIN NatGatewayProperties :
       NatGatewayProperties[g].SubnetId = NatGatewayProperties[h].SubnetId
         => g = h
  /\ \A n \in {"PrivateSubnetA", "PrivateSubnetB"} :
       \A g \in NatGatewaysOf(n) :
         /\ g \in created /\ NatGatewayProperties[g].SubnetId \in created
         /\ NatGatewayProperties[g].SubnetId \in {"PublicSubnetA", "PublicSubnetB"}
         /\ SubnetProperties[NatGatewayProperties[g].SubnetId].AvailabilityZone
              = SubnetProperties[n].AvailabilityZone
  /\ NatGatewaysOf("PrivateSubnetA") \subseteq {"NatGatewayA"}
  /\ NatGatewaysOf("PrivateSubnetB") \subseteq {"NatGatewayB"}
  /\ stack_status = "CREATE_COMPLETE" =>
       /\ NatGatewaysOf("PrivateSubnetA") = {"NatGatewayA"}
       /\ NatGatewaysOf("PrivateSubnetB") = {"NatGatewayB"}
       /\ NatGatewayProperties["NatGatewayA"].SubnetId = "PublicSubnetA"
       /\ NatGatewayProperties["NatGatewayB"].SubnetId = "PublicSubnetB"

\* both private subnets route through their NAT gateway while the stack is
\* still being created
C22_Witness ==
  /\ stack_status = "CREATE_IN_PROGRESS"
  /\ NatGatewaysOf("PrivateSubnetA") = {"NatGatewayA"}
  /\ NatGatewaysOf("PrivateSubnetB") = {"NatGatewayB"}
  /\ created \cap {"StreamlitCluster", "LoggingBucket", "LogsPolicy"} = {}

\* C23: the ELB account id of LoggingBucketPolicy has a value only in
\* us-east-1 and us-west-2: in another region the mapping has no entry, the
\* creation of the stack fails, LoggingBucketPolicy is never created and the
\* stack never completes.
C23_OnlyMappedRegions ==
  /\ \A rg \in Regions :
       FindInMapResolves(rg) <=> rg \in {"us-east-1", "us-west-2"}
  /\ (stack_status # "NONE" /\ stack_region \notin {"us-east-1", "us-west-2"})
       => /\ stack_status = "REFUSED"
          /\ stack_error = "Unable to get mapping"
          /\ "LoggingBucketPolicy" \notin created
          /\ exports = <<>>
  /\ "LoggingBucketPolicy" \in created =>
       ELBRegionMap[stack_region].ELBAccountId
         \in {"127311923021", "797873946194"}
  /\ stack_status \in {"CREATE_IN_PROGRESS", "CREATE_COMPLETE"} =>
       /\ stack_region \in {"us-east-1", "us-west-2"}
       /\ stack_error = "none"

\* the creation of the stack failed in a region the mapping does not have
C23_Witness ==
  /\ stack_status = "REFUSED" /\ stack_region = "eu-west-1"
  /\ stack_error = "Unable to get mapping" /\ created = {}

\* ============================================ properties: retrieve_and_generate
\* C24: a call of retrieve_and_generate sends exactly one request to the API,
\* made of its arguments unchanged: the query as input text, kb_id, model_arn,
\* max_results as numberOfResults and prompt_template as textPromptTemplate,
\* default_prompt when the call passes no template; it returns the response of
\* the API as it is.
C24_OneCallArgumentsUnchanged ==
  /\ Len(rag_requests) <= 1
  /\ rag_pc \in {"respond", "returned", "raised"} => Len(rag_requests) = 1
  /\ rag_pc = "call" => rag_requests = <<>>
  /\ \A i \in 1..Len(rag_requests) :
       LET kw == Val(rag_kwargs)
           cfg == rag_requests[i].retrieveAndGenerateConfiguration
           kb == cfg.knowledgeBaseConfiguration
       IN /\ DOMAIN rag_requests[i] = {"input", "retrieveAndGenerateConfiguration"}
          /\ rag_requests[i].input = [text |-> kw.query]
          /\ cfg.type = "KNOWLEDGE_BASE"
          /\ kb.knowledgeBaseId = kw.kb_id
          /\ kb.modelArn = kw.model_arn
          /\ kb.retrievalConfiguration.vectorSearchConfiguration.numberOfResults
               = kw.max_results
          /\ kb.generationConfiguration.promptTemplate.textPromptTemplate
               = IF kw.prompt_template = None
                   THEN default_prompt ELSE Val(kw.prompt_template)
  /\ rag_pc = "returned" =>
       /\ rag_result # None /\ rag_result = rag_response
       /\ Val(rag_result) \in RagResponses
       /\ rag_error = None
  /\ rag_pc = "raised" =>
       /\ rag_result = None /\ rag_response = None
       /\ rag_error # None /\ Val(rag_error) \in RagErrors
  /\ rag_pc \notin {"returned"} => rag_result = None

\* a second call, without a template, returned the response with citations
C24_Witness ==
  /\ rag_pc = "returned" /\ rag_calls = 2
  /\ Val(rag_kwargs).prompt_template = None
  /\ Val(rag_kwargs).max_results = 10
  /\ Len(rag_requests) = 1
  /\ Val(rag_result).citations # <<>>

====
